---- MODULE Spec2Model ----
(***************************************************************************)
(* Model of src/TNGDataSet.py: the SubsplitDictionaries ledger and the     *)
(* three split generators of TNGDataSet._generate_examples that share the  *)
(* builder's file list, ledger and running counts.                         *)
(***************************************************************************)
EXTENDS Integers, Sequences, FiniteSets, TLC

VARIABLES
    internal_dict,   \* self.internal_dict: train_dict, valid_dict, test_dict, full_list
    isPopulated,     \* self.isPopulated
    list_of_fits,    \* self.list_of_fits: the shared pool, a list of file paths
    nb_of_entries,   \* self.nb_of_entries (set by PopulateFileList)
    nb_of_train,     \* self.nb_of_train
    nb_of_val,       \* self.nb_of_val
    nb_of_test,      \* self.nb_of_test
    percent,         \* self.train_percent, self.val_percent, self.test_percent
    disk,            \* the directory tree under fit_path: path -> the file's extensions
    pc,              \* per generator: where its frame is suspended
    fit_file,        \* per generator: local fit_file
    pos,             \* per generator: index of the next fit_elem of the open file
    hit_count,       \* per generator: local dict hit_count
    active,          \* the generator running between two yields, or NoGen
    emitted,         \* history: <<split, file, index>> of every record yielded
    reemitted,       \* history: the records yielded more than once
    iters,           \* history: per generator, outer-loop iterations started
    last,            \* history: the last direct ledger call and the ledger before it
    accepted         \* history: <<key, split>> of every direct ledger call that accepted

vars == <<internal_dict, isPopulated, list_of_fits, nb_of_entries, nb_of_train,
          nb_of_val, nb_of_test, percent, disk, pc, fit_file, pos, hit_count,
          active, emitted, reemitted, iters, last, accepted>>

driverVars == <<isPopulated, list_of_fits, nb_of_entries, nb_of_train, nb_of_val,
                nb_of_test, percent, disk, pc, fit_file, pos, hit_count, active,
                emitted, reemitted, iters>>

-----------------------------------------------------------------------------
(* Bounds and program constants *)

\* Largest number of files the directory walk finds.
MaxFiles == 2

\* The literal 7 of PopulateFileList and of the eviction test.
ExtPerFile == 7

TRAIN == "train"
VALIDATION == "validation"
TEST == "test"
Splits == {TRAIN, VALIDATION, TEST}

NoGen == "none"
NoFile == 0

\* Saturation point of the history counter iters.
IterCap == ExtPerFile * MaxFiles + 1

Min(a, b) == IF a < b THEN a ELSE b

-----------------------------------------------------------------------------
(* Python list and dict helpers *)

In(x, s) == \E i \in 1..Len(s) : s[i] = x

\* Faulty removal: drops the last element whatever x is (list.pop()).
Remove_Last(s, x) == SubSeq(s, 1, Len(s) - 1)

\* list.remove(x): drops the first occurrence; the caller checks membership
\* (a missing x raises ValueError).
FirstIndex(s, x) == CHOOSE i \in 1..Len(s) : s[i] = x /\ \A j \in 1..(i - 1) : s[j] # x

Remove(s, x) ==
    LET k == FirstIndex(s, x)
    IN  [i \in 1..(Len(s) - 1) |-> IF i < k THEN s[i] ELSE s[i + 1]]

\* dict.get(k, 0)
Get(d, k) == IF k \in DOMAIN d THEN d[k] ELSE 0

\* d[k] = v
Put(d, k, v) == [x \in (DOMAIN d) \cup {k} |-> IF x = k THEN v ELSE d[x]]

-----------------------------------------------------------------------------
(* SubsplitDictionaries *)

EmptyLedger ==
    [train_dict |-> <<>>, valid_dict |-> <<>>, test_dict |-> <<>>, full_list |-> <<>>]

\* "{0}_{1}_{2}_{3}_{4}".format(EXTNAME, ORIGIN, SIMTAG, SNAPNUM, SUBHALO)
CreateKey(EXTNAME, ORIGIN, SIMTAG, SNAPNUM, SUBHALO) ==
    EXTNAME \o "_" \o ORIGIN \o "_" \o SIMTAG \o "_" \o ToString(SNAPNUM)
            \o "_" \o ToString(SUBHALO)

\* One branch of FindOrCreate, for the faulty variants below: accept into the
\* list named own unless the key is in one of the lists named in others.
Branch(d, key, own, others, guarded) ==
    IF \A o \in others : ~In(key, d[o])
    THEN [res |-> FALSE,
          dict |-> IF guarded /\ In(key, d[own]) THEN d
                   ELSE [d EXCEPT ![own] = Append(@, key)]]
    ELSE [res |-> TRUE, dict |-> d]

\* Faulty FindOrCreate: the training branch forgets to look in test_dict.
FindOrCreate_ForgetTest(d, key, CAMERA, subsplit) ==
    IF subsplit = "train" THEN Branch(d, key, "train_dict", {"valid_dict"}, TRUE)
    ELSE IF subsplit = "validation"
    THEN Branch(d, key, "valid_dict", {"train_dict", "test_dict"}, TRUE)
    ELSE IF subsplit = "test"
    THEN Branch(d, key, "test_dict", {"train_dict", "valid_dict"}, TRUE)
    ELSE [res |-> TRUE, dict |-> d]

\* Faulty FindOrCreate: the validation branch tests its own list instead of
\* train_dict.
FindOrCreate_ValidChecksOwn(d, key, CAMERA, subsplit) ==
    IF subsplit = "train"
    THEN Branch(d, key, "train_dict", {"valid_dict", "test_dict"}, TRUE)
    ELSE IF subsplit = "validation"
    THEN Branch(d, key, "valid_dict", {"valid_dict", "test_dict"}, TRUE)
    ELSE IF subsplit = "test"
    THEN Branch(d, key, "test_dict", {"train_dict", "valid_dict"}, TRUE)
    ELSE [res |-> TRUE, dict |-> d]

\* Faulty FindOrCreate: the membership tests use key_with_camera.
FindOrCreate_CameraKey(d, key, CAMERA, subsplit) ==
    LET key_with_camera == key \o "_" \o CAMERA
    IN  IF subsplit = "train"
        THEN Branch(d, key_with_camera, "train_dict",
                    {"valid_dict", "test_dict"}, TRUE)
        ELSE IF subsplit = "validation"
        THEN Branch(d, key_with_camera, "valid_dict",
                    {"train_dict", "test_dict"}, TRUE)
        ELSE IF subsplit = "test"
        THEN Branch(d, key_with_camera, "test_dict",
                    {"train_dict", "valid_dict"}, TRUE)
        ELSE [res |-> TRUE, dict |-> d]

\* Faulty FindOrCreate: appends without the "if key not in" test.
FindOrCreate_AlwaysAppend(d, key, CAMERA, subsplit) ==
    IF subsplit = "train"
    THEN Branch(d, key, "train_dict", {"valid_dict", "test_dict"}, FALSE)
    ELSE IF subsplit = "validation"
    THEN Branch(d, key, "valid_dict", {"train_dict", "test_dict"}, FALSE)
    ELSE IF subsplit = "test"
    THEN Branch(d, key, "test_dict", {"train_dict", "valid_dict"}, FALSE)
    ELSE [res |-> TRUE, dict |-> d]

\* Faulty FindOrCreate: the call first registers key_with_camera in full_list
\* (the statement of line 52 enabled), whatever the answer.
FindOrCreate_RegistersCall(d, key, CAMERA, subsplit) ==
    LET key_with_camera == key \o "_" \o CAMERA
        r == IF subsplit = "train"
             THEN Branch(d, key, "train_dict", {"valid_dict", "test_dict"}, TRUE)
             ELSE IF subsplit = "validation"
             THEN Branch(d, key, "valid_dict", {"train_dict", "test_dict"}, TRUE)
             ELSE IF subsplit = "test"
             THEN Branch(d, key, "test_dict", {"train_dict", "valid_dict"}, TRUE)
             ELSE [res |-> TRUE, dict |-> d]
    IN  [res |-> r.res,
         dict |-> IF In(key_with_camera, d.full_list) THEN r.dict
                  ELSE [r.dict EXCEPT !.full_list = Append(@, key_with_camera)]]

\* FindOrCreate on ledger d: the returned flag (TRUE = reject) and the ledger after.
FindOrCreate(d, key, CAMERA, subsplit) ==
    LET key_with_camera == key \o "_" \o CAMERA
    IN  IF subsplit = TRAIN
        THEN IF ~In(key, d.valid_dict) /\ ~In(key, d.test_dict)
             THEN [res |-> FALSE,
                   dict |-> IF ~In(key, d.train_dict)
                            THEN [d EXCEPT !.train_dict = Append(@, key)]
                            ELSE d]
             ELSE [res |-> TRUE, dict |-> d]
        ELSE IF subsplit = VALIDATION
        THEN IF ~In(key, d.train_dict) /\ ~In(key, d.test_dict)
             THEN [res |-> FALSE,
                   dict |-> IF ~In(key, d.valid_dict)
                            THEN [d EXCEPT !.valid_dict = Append(@, key)]
                            ELSE d]
             ELSE [res |-> TRUE, dict |-> d]
        ELSE IF subsplit = TEST
        THEN IF ~In(key, d.train_dict) /\ ~In(key, d.valid_dict)
             THEN [res |-> FALSE,
                   dict |-> IF ~In(key, d.test_dict)
                            THEN [d EXCEPT !.test_dict = Append(@, key)]
                            ELSE d]
             ELSE [res |-> TRUE, dict |-> d]
        ELSE [res |-> TRUE, dict |-> d]

\* No direct ledger call made yet.
NoCall ==
    [key |-> "", CAMERA |-> "", subsplit |-> "", res |-> FALSE, before |-> EmptyLedger]

\* The membership list of a split.
ListOf(d, s) ==
    IF s = TRAIN THEN d.train_dict
    ELSE IF s = VALIDATION THEN d.valid_dict
    ELSE d.test_dict

-----------------------------------------------------------------------------
(* The inputs: the files under fit_path and the configured proportions *)

Cameras == <<"v0", "v1", "v2">>

\* One FITS extension's header: the object with subhalo number h seen by the
\* i-th camera (cameras repeat in turn within a file).
Elem(h, i) ==
    [EXTNAME |-> "SUBFIND", ORIGIN |-> "TNG", SIMTAG |-> "TNG50", SNAPNUM |-> 50,
     SUBHALO |-> h, CAMERA |-> Cameras[((i - 1) % Len(Cameras)) + 1]]

\* A file of n extensions: the first k show object a, the rest object b.
FitsFile(a, b, k, n) == [i \in 1..n |-> IF i <= k THEN Elem(a, i) ELSE Elem(b, i)]

\* The file contents the model draws from: a regular file (ExtPerFile views of
\* one object), a file of ExtPerFile extensions holding two objects, and a
\* short file of two objects.
FileShapes ==
    << FitsFile(1, 1, ExtPerFile, ExtPerFile),
       FitsFile(1, 2, 4, ExtPerFile),
       FitsFile(1, 2, 1, 2) >>

\* Directories of up to MaxFiles files, at most one of them not regular (the
\* walk's order is immaterial: paths are distinct and the pool is only sampled
\* and searched, so the irregular file is put last).
Directories ==
    UNION { { [i \in 1..n |-> FileShapes[c[i]]] :
                c \in { c \in [1..n -> 1..Len(FileShapes)] :
                          \A i \in 1..(n - 1) : c[i] = 1 } } :
            n \in 0..MaxFiles }

\* A proportion num/den.
Frac(n, d) == [num |-> n, den |-> d]

\* Proportions that add up to 1: the constructor's defaults (0.8, 0.1, 0.1),
\* all for training, and an even train/validation share.
Percents ==
    { [train_percent |-> Frac(4, 5), val_percent |-> Frac(1, 10), test_percent |-> Frac(1, 10)],
      [train_percent |-> Frac(1, 1), val_percent |-> Frac(0, 1), test_percent |-> Frac(0, 1)],
      [train_percent |-> Frac(1, 2), val_percent |-> Frac(1, 2), test_percent |-> Frac(0, 1)] }

\* Identity of an extension, and its ledger key.
Identity(e) == <<e.EXTNAME, e.ORIGIN, e.SIMTAG, e.SNAPNUM, e.SUBHALO>>
KeyOf(e) == CreateKey(e.EXTNAME, e.ORIGIN, e.SIMTAG, e.SNAPNUM, e.SUBHALO)

-----------------------------------------------------------------------------
(* TNGDataSet *)

Counts == [nb_of_train |-> nb_of_train, nb_of_val |-> nb_of_val, nb_of_test |-> nb_of_test]

\* The directory walk: one path per file found.
Walk(dsk) == [i \in 1..Len(dsk) |-> i]

\* Faulty PopulateFileList: the isPopulated early return is missing.
PopulateFileList_NoEarlyReturn(populated, fits, entries, dsk) ==
    IF Len(fits) # 0
    THEN [ok |-> FALSE, isPopulated |-> populated, list_of_fits |-> fits,
          nb_of_entries |-> entries]
    ELSE IF Len(dsk) > 0
    THEN [ok |-> TRUE, isPopulated |-> TRUE, list_of_fits |-> Walk(dsk),
          nb_of_entries |-> Len(dsk) * ExtPerFile]
    ELSE [ok |-> FALSE, isPopulated |-> populated, list_of_fits |-> fits,
          nb_of_entries |-> entries]

\* Faulty PopulateFileList: the "some data exists" assertion is missing.
PopulateFileList_NoDataCheck(populated, fits, entries, dsk) ==
    IF populated
    THEN [ok |-> TRUE, isPopulated |-> populated, list_of_fits |-> fits,
          nb_of_entries |-> entries]
    ELSE IF Len(fits) # 0
    THEN [ok |-> FALSE, isPopulated |-> populated, list_of_fits |-> fits,
          nb_of_entries |-> entries]
    ELSE [ok |-> TRUE, isPopulated |-> TRUE, list_of_fits |-> Walk(dsk),
          nb_of_entries |-> Len(dsk) * ExtPerFile]

\* Faulty PopulateFileList: walks again whenever the pool is empty.
PopulateFileList_RefillWhenEmpty(populated, fits, entries, dsk) ==
    IF populated /\ Len(fits) # 0
    THEN [ok |-> TRUE, isPopulated |-> populated, list_of_fits |-> fits,
          nb_of_entries |-> entries]
    ELSE IF Len(dsk) > 0
    THEN [ok |-> TRUE, isPopulated |-> TRUE, list_of_fits |-> Walk(dsk),
          nb_of_entries |-> Len(dsk) * ExtPerFile]
    ELSE [ok |-> FALSE, isPopulated |-> populated, list_of_fits |-> fits,
          nb_of_entries |-> entries]

\* PopulateFileList: ok is FALSE when one of its assertions fails.
PopulateFileList(populated, fits, entries, dsk) ==
    IF populated
    THEN [ok |-> TRUE, isPopulated |-> populated, list_of_fits |-> fits,
          nb_of_entries |-> entries]
    ELSE IF Len(fits) # 0
    THEN [ok |-> FALSE, isPopulated |-> populated, list_of_fits |-> fits,
          nb_of_entries |-> entries]
    ELSE LET walked == Walk(dsk)
         IN  IF Len(walked) > 0
             THEN [ok |-> TRUE, isPopulated |-> TRUE, list_of_fits |-> walked,
                   nb_of_entries |-> Len(walked) * ExtPerFile]
             ELSE [ok |-> FALSE, isPopulated |-> populated, list_of_fits |-> walked,
                   nb_of_entries |-> entries]

\* Faulty EnoughSamples: > where the code has >=.
EnoughSamples_Strict(c, entries, pct, split_type) ==
    IF split_type = "train"
    THEN c.nb_of_train * pct.train_percent.den > entries * pct.train_percent.num
    ELSE IF split_type = "validation"
    THEN c.nb_of_val * pct.val_percent.den > entries * pct.val_percent.num
    ELSE c.nb_of_test * pct.test_percent.den > entries * pct.test_percent.num

\* EnoughSamples: count >= nb_of_entries * proportion.
EnoughSamples(c, entries, pct, split_type) ==
    IF split_type = TRAIN
    THEN c.nb_of_train * pct.train_percent.den >= entries * pct.train_percent.num
    ELSE IF split_type = VALIDATION
    THEN c.nb_of_val * pct.val_percent.den >= entries * pct.val_percent.num
    ELSE c.nb_of_test * pct.test_percent.den >= entries * pct.test_percent.num

\* Faulty IncrementSamples: the validation branch bumps nb_of_train.
IncrementSamples_ValBumpsTrain(c, split_type) ==
    IF split_type = "train" THEN [c EXCEPT !.nb_of_train = @ + 1]
    ELSE IF split_type = "validation" THEN [c EXCEPT !.nb_of_train = @ + 1]
    ELSE IF split_type = "test" THEN [c EXCEPT !.nb_of_test = @ + 1]
    ELSE c

\* IncrementSamples: the counts after the call.
IncrementSamples(c, split_type) ==
    IF split_type = TRAIN THEN [c EXCEPT !.nb_of_train = @ + 1]
    ELSE IF split_type = VALIDATION THEN [c EXCEPT !.nb_of_val = @ + 1]
    ELSE IF split_type = TEST THEN [c EXCEPT !.nb_of_test = @ + 1]
    ELSE c

\* The generator g may take a step: nothing else is between two yields.
CanRun(g) == active = NoGen \/ active = g

\* The extension the generator g is about to read.
CurElem(g) == disk[fit_file[g]][pos[g]]

\* ---- The constructor's check of the proportions (Python float arithmetic) ----

\* A Python float between 0 and 4 written in binary fixed point: the sequence of
\* its bits of weight 2^1, 2^0, 2^-1 .. 2^-FracBits. A double that is 0 or at
\* least 2^-5 is written exactly with FracBits = 57.
FracBits == 57
Width == FracBits + 2

\* Significant bits of a Python float (IEEE 754 binary64).
Mantissa == 53

Zero == [i \in 1..Width |-> 0]
One == [i \in 1..Width |-> IF i = 2 THEN 1 ELSE 0]

\* Exact sum of two fixed-point numbers (the sum stays below 4): c(i) is the
\* carry into the bit i, raised by the nearest lower pair of 1s and passed on
\* by the bits between.
AddBits(a, b) ==
    LET c(i) == IF \E j \in (i + 1)..Width :
                       /\ a[j] = 1 /\ b[j] = 1
                       /\ \A k \in (i + 1)..(j - 1) : a[k] + b[k] = 1
                THEN 1 ELSE 0
    IN  [i \in 1..Width |-> (a[i] + b[i] + c(i)) % 2] \o << >>

\* Rounding of an exact value to a float: to the nearest number of Mantissa
\* significant bits, ties to even. x holds the leading bits of the value and
\* sticky says that bits beyond x are not all 0.
RoundToDouble(x, sticky) ==
    IF \A i \in 1..Len(x) : x[i] = 0
    THEN Zero
    ELSE LET L == CHOOSE i \in 1..Len(x) : x[i] = 1 /\ \A j \in 1..(i - 1) : x[j] = 0
             lsb == L + Mantissa - 1
             kept == [i \in 1..Width |-> IF i <= lsb /\ i <= Len(x) THEN x[i] ELSE 0] \o << >>
             half == lsb < Len(x) /\ x[lsb + 1] = 1
             rest == sticky \/ \E i \in (lsb + 2)..Len(x) : x[i] = 1
             ulp == [i \in 1..Width |-> IF i = lsb THEN 1 ELSE 0] \o << >>
         IN  IF half /\ (rest \/ x[lsb] = 1) THEN AddBits(kept, ulp) ELSE kept

\* 2^k modulo d, by repeated squaring.
RECURSIVE Pow2Mod(_, _)
Pow2Mod(k, d) ==
    IF k = 0 THEN 1 % d
    ELSE LET h == Pow2Mod(k \div 2, d)
         IN  (h * h * (IF k % 2 = 1 THEN 2 ELSE 1)) % d

\* The remainder of n * 2^m by d, and the binary digit of weight 2^-m of n / d
\* (n <= d).
Rest(n, d, m) == (n * Pow2Mod(m, d)) % d
Digit(n, d, m) == IF m = 0 THEN n \div d ELSE (2 * Rest(n, d, m - 1)) \div d

\* The float a decimal argument num / den denotes (correctly rounded): its
\* binary expansion from weight 2^1 down to one bit below 2^-FracBits, rounded.
Float(f) ==
    RoundToDouble([i \in 1..(Width + 1) |->
                       IF i = 1 THEN 0 ELSE Digit(f.num, f.den, i - 2)] \o << >>,
                  Rest(f.num, f.den, Width - 1) # 0)

\* Python's a + b on floats.
Add(a, b) == RoundToDouble(AddBits(a, b), FALSE)

\* train_percent + val_percent + test_percent, evaluated left to right.
SumOf(pct) ==
    Add(Add(Float(pct.train_percent), Float(pct.val_percent)), Float(pct.test_percent))

\* Arguments given to the constructor: the proportions above, the thirds
\* (0.34, 0.33, 0.33), (0.7, 0.2, 0.1), and (0.5, 0.3, 0.1) that misses a tenth.
Arguments ==
    Percents \cup
    { [train_percent |-> Frac(34, 100), val_percent |-> Frac(33, 100), test_percent |-> Frac(33, 100)],
      [train_percent |-> Frac(7, 10), val_percent |-> Frac(1, 5), test_percent |-> Frac(1, 10)],
      [train_percent |-> Frac(1, 2), val_percent |-> Frac(3, 10), test_percent |-> Frac(1, 10)] }

\* The arguments whose sum, computed by Python, is exactly 1.
ExactlyOne == { pct \in Arguments : SumOf(pct) = One }

\* Faulty constructor: the check of the proportions is missing.
Constructed_Unchecked(pct) == TRUE

\* The constructor's assertion: it returns a builder only if this holds.
Constructed(pct) == SumOf(pct) = One

\* State after TNGDataSet.__init__, with the generators created and not started;
\* "unbuilt" when the constructor raised and there is no builder.
Init ==
    /\ internal_dict = EmptyLedger
    /\ isPopulated = FALSE
    /\ list_of_fits = <<>>
    /\ nb_of_entries = 0
    /\ nb_of_train = 0
    /\ nb_of_val = 0
    /\ nb_of_test = 0
    /\ percent \in Arguments
    /\ disk \in Directories
    /\ pc = [g \in Splits |-> IF Constructed(percent) THEN "start" ELSE "unbuilt"]
    /\ fit_file = [g \in Splits |-> NoFile]
    /\ pos = [g \in Splits |-> 0]
    /\ hit_count = [g \in Splits |-> << >>]
    /\ active = NoGen
    /\ emitted = {}
    /\ reemitted = {}
    /\ iters = [g \in Splits |-> 0]
    /\ last = NoCall
    /\ accepted = {}

\* First next() of a generator: PopulateFileList and hit_count = {}.
Start(g) ==
    /\ pc[g] = "start"
    /\ active = NoGen
    /\ LET p == PopulateFileList(isPopulated, list_of_fits, nb_of_entries, disk)
       IN  /\ isPopulated' = p.isPopulated
           /\ list_of_fits' = p.list_of_fits
           /\ nb_of_entries' = p.nb_of_entries
           /\ pc' = [pc EXCEPT ![g] = IF p.ok THEN "loop" ELSE "failed"]
           /\ active' = IF p.ok THEN g ELSE NoGen
    /\ hit_count' = [hit_count EXCEPT ![g] = << >>]
    /\ UNCHANGED <<internal_dict, nb_of_train, nb_of_val, nb_of_test, percent, disk,
                   fit_file, pos, emitted, reemitted, iters, last, accepted>>

\* The while condition of _generate_examples.
LoopCond(g) ==
    Len(list_of_fits) > 0 /\ ~EnoughSamples(Counts, nb_of_entries, percent, g)

\* while condition true: fit_file = choice(self.list_of_fits); fits.open.
OpenFile(g) ==
    /\ pc[g] = "loop"
    /\ active = g
    /\ LoopCond(g)
    /\ \E i \in 1..Len(list_of_fits) :
          fit_file' = [fit_file EXCEPT ![g] = list_of_fits[i]]
    /\ pos' = [pos EXCEPT ![g] = 1]
    /\ pc' = [pc EXCEPT ![g] = "file"]
    /\ UNCHANGED <<internal_dict, isPopulated, list_of_fits, nb_of_entries, nb_of_train,
                   nb_of_val, nb_of_test, percent, disk, hit_count, active, emitted,
                   reemitted, last, accepted>>

SelectFile(g) == OpenFile(g) /\ UNCHANGED iters

\* while condition false: the generator returns.
Finish(g) ==
    /\ pc[g] = "loop"
    /\ active = g
    /\ ~LoopCond(g)
    /\ pc' = [pc EXCEPT ![g] = "done"]
    /\ active' = NoGen
    /\ UNCHANGED <<internal_dict, isPopulated, list_of_fits, nb_of_entries, nb_of_train,
                   nb_of_val, nb_of_test, percent, disk, fit_file, pos, hit_count,
                   emitted, reemitted, iters, last, accepted>>

\* Faulty call: the split being generated is not passed on (always TRAIN).
Resolve_AlwaysTrain(g) ==
    FindOrCreate(internal_dict, KeyOf(CurElem(g)), CurElem(g).CAMERA, "train")

\* self.internal_dict.FindOrCreate(key, example["CAMERA"], split_type) for the
\* extension the generator g is about to read.
Resolve(g) == FindOrCreate(internal_dict, KeyOf(CurElem(g)), CurElem(g).CAMERA, g)

\* Faulty handling of a rejected record: break instead of continue.
RejectRecord_Break(g) ==
    /\ pc[g] = "file"
    /\ CanRun(g)
    /\ pos[g] <= Len(disk[fit_file[g]])
    /\ Resolve(g).res
    /\ internal_dict' = Resolve(g).dict
    /\ pos' = [pos EXCEPT ![g] = Len(disk[fit_file[g]]) + 1]
    /\ active' = g
    /\ UNCHANGED <<isPopulated, list_of_fits, nb_of_entries, nb_of_train, nb_of_val,
                   nb_of_test, percent, disk, pc, fit_file, hit_count, emitted,
                   reemitted, iters, last, accepted>>

\* for fit_elem in fitm: FindOrCreate returned True, continue.
RejectRecord(g) ==
    /\ pc[g] = "file"
    /\ CanRun(g)
    /\ pos[g] <= Len(disk[fit_file[g]])
    /\ Resolve(g).res
    /\ internal_dict' = Resolve(g).dict
    /\ pos' = [pos EXCEPT ![g] = @ + 1]
    /\ active' = g
    /\ UNCHANGED <<isPopulated, list_of_fits, nb_of_entries, nb_of_train, nb_of_val,
                   nb_of_test, percent, disk, pc, fit_file, hit_count, emitted,
                   reemitted, iters, last, accepted>>

\* for fit_elem in fitm: FindOrCreate returned False; register the hit,
\* IncrementSamples, yield.
AcceptRecord(g) ==
    /\ pc[g] = "file"
    /\ CanRun(g)
    /\ pos[g] <= Len(disk[fit_file[g]])
    /\ ~Resolve(g).res
    /\ internal_dict' = Resolve(g).dict
    /\ hit_count' = [hit_count EXCEPT ![g] =
                        IF Get(@, fit_file[g]) # 0
                        THEN Put(@, fit_file[g], @[fit_file[g]] + 1)
                        ELSE Put(@, fit_file[g], 1)]
    /\ LET c == IncrementSamples(Counts, g)
       IN  /\ nb_of_train' = c.nb_of_train
           /\ nb_of_val' = c.nb_of_val
           /\ nb_of_test' = c.nb_of_test
    /\ LET rec == <<g, fit_file[g], pos[g]>>
       IN  /\ emitted' = emitted \cup {rec}
           /\ reemitted' = IF rec \in emitted THEN reemitted \cup {rec} ELSE reemitted
    /\ pos' = [pos EXCEPT ![g] = @ + 1]
    /\ active' = NoGen
    /\ UNCHANGED <<isPopulated, list_of_fits, nb_of_entries, percent, disk, pc, fit_file,
                   iters, last, accepted>>

\* The eviction test: hit_count.get(fit_file, 0) == 7.
Evicts(hits) == hits = ExtPerFile

\* "Done with this file": evict it when its hit count is 7; list.remove raises
\* ValueError when the file is no longer in the pool.
EndOfFile(g) ==
    /\ pc[g] = "file"
    /\ CanRun(g)
    /\ pos[g] > Len(disk[fit_file[g]])
    /\ IF Evicts(Get(hit_count[g], fit_file[g]))
       THEN IF In(fit_file[g], list_of_fits)
            THEN /\ list_of_fits' = Remove(list_of_fits, fit_file[g])
                 /\ pc' = [pc EXCEPT ![g] = "loop"]
                 /\ active' = g
            ELSE /\ list_of_fits' = list_of_fits
                 /\ pc' = [pc EXCEPT ![g] = "failed"]
                 /\ active' = NoGen
       ELSE /\ list_of_fits' = list_of_fits
            /\ pc' = [pc EXCEPT ![g] = "loop"]
            /\ active' = g
    /\ UNCHANGED <<internal_dict, isPopulated, nb_of_entries, nb_of_train, nb_of_val,
                   nb_of_test, percent, disk, fit_file, pos, hit_count, emitted,
                   reemitted, iters, last, accepted>>

Next ==
    \E g \in Splits :
        \/ Start(g)
        \/ SelectFile(g)
        \/ Finish(g)
        \/ RejectRecord(g)
        \/ AcceptRecord(g)
        \/ EndOfFile(g)

Spec == Init /\ [][Next]_vars

-----------------------------------------------------------------------------
(* The generators drained one after the other, in the order of the dict that
   _split_generators returns, with the outer-loop iterations counted *)

Order == <<TRAIN, VALIDATION, TEST>>

Ended(g) == pc[g] \in {"done", "failed"}

\* g's turn: every generator before it has ended.
Turn(g) == \A i \in 1..Len(Order), j \in 1..Len(Order) :
              (Order[j] = g /\ i < j) => Ended(Order[i])

CountedSelectFile(g) ==
    OpenFile(g) /\ iters' = [iters EXCEPT ![g] = Min(@ + 1, IterCap)]

NextSeq ==
    \E g \in Splits :
        \/ Turn(g) /\ Start(g)
        \/ Turn(g) /\ CountedSelectFile(g)
        \/ Turn(g) /\ Finish(g)
        \/ Turn(g) /\ RejectRecord(g)
        \/ Turn(g) /\ AcceptRecord(g)
        \/ Turn(g) /\ EndOfFile(g)

SpecSeq == Init /\ [][NextSeq]_vars

-----------------------------------------------------------------------------
(* The ledger on its own: FindOrCreate called with arbitrary arguments *)

\* Number of distinct object keys offered to the ledger.
NumKeys == 3

Keys == { CreateKey("SUBFIND", "TNG", "TNG50", 50, h) : h \in 1..NumKeys }

CameraTags == { Cameras[i] : i \in 1..Len(Cameras) }

\* internal_dict.FindOrCreate(key, CAMERA, subsplit) on a fresh builder's ledger.
CallFindOrCreate(key, CAMERA, subsplit) ==
    LET r == FindOrCreate(internal_dict, key, CAMERA, subsplit)
    IN  /\ internal_dict' = r.dict
        /\ last' = [key |-> key, CAMERA |-> CAMERA, subsplit |-> subsplit,
                    res |-> r.res, before |-> internal_dict]
        /\ accepted' = IF r.res THEN accepted ELSE accepted \cup {<<key, subsplit>>}
        /\ UNCHANGED driverVars

InitLedger == Init /\ disk = << >> /\ percent.train_percent = Frac(4, 5)

NextLedger ==
    \E key \in Keys, CAMERA \in CameraTags, subsplit \in Splits :
        CallFindOrCreate(key, CAMERA, subsplit)

SpecLedger == InitLedger /\ [][NextLedger]_vars

-----------------------------------------------------------------------------
(* Properties of the ledger (checked under SpecLedger) *)

\* C1 (exclusivity): after any sequence of FindOrCreate calls, every key is a
\* member of at most one of train_dict, valid_dict and test_dict.
C1_Exclusivity ==
    \A s1 \in Splits, s2 \in Splits :
        s1 # s2 =>
            \A i \in 1..Len(ListOf(internal_dict, s1)) :
                ~In(ListOf(internal_dict, s1)[i], ListOf(internal_dict, s2))

\* C1 witness: all three lists hold a key and the last call was a rejection.
C1_Witness ==
    /\ \A s \in Splits : Len(ListOf(internal_dict, s)) > 0
    /\ last.res

\* C4 (first claim wins, permanently): a key that a call accepted for split s
\* is still in s's list, and no call has accepted it for another split since
\* or before.
C4_FirstClaimWins ==
    \A a \in accepted :
        /\ In(a[1], ListOf(internal_dict, a[2]))
        /\ \A b \in accepted : b[1] = a[1] => b[2] = a[2]

\* C4 witness: a key accepted earlier for one split has just been refused to
\* another split, with other calls in between.
C4_Witness ==
    /\ last.res
    /\ \E a \in accepted : a[1] = last.key /\ a[2] # last.subsplit
    /\ \E b \in accepted : b[1] # last.key
    /\ ListOf(internal_dict, TRAIN) # << >>
    /\ internal_dict.train_dict[Len(internal_dict.train_dict)] # last.key

\* C5 (decision rule): a call rejects exactly when the key was recorded under
\* another split; an accepting call leaves the key in the requested split's
\* list, appended if it was absent, and changes nothing else; the camera tag
\* changes neither the answer nor the ledger.
C5_DecisionRule ==
    last # NoCall =>
        LET own == ListOf(last.before, last.subsplit)
            elsewhere == \E s \in Splits \ {last.subsplit} :
                            In(last.key, ListOf(last.before, s))
        IN  /\ last.res <=> elsewhere
            /\ ~last.res =>
                  /\ In(last.key, ListOf(internal_dict, last.subsplit))
                  /\ ListOf(internal_dict, last.subsplit) =
                        IF In(last.key, own) THEN own ELSE Append(own, last.key)
                  /\ \A s \in Splits \ {last.subsplit} :
                        ListOf(internal_dict, s) = ListOf(last.before, s)
            /\ \A c \in CameraTags :
                  FindOrCreate(last.before, last.key, c, last.subsplit) =
                      [res |-> last.res, dict |-> internal_dict]

\* C5 witness: both outcomes are present: the last call was rejected and its
\* key sits in another split's list, while some other key was accepted.
C5_Witness ==
    /\ last # NoCall
    /\ last.res
    /\ \E s \in Splits \ {last.subsplit} : In(last.key, ListOf(internal_dict, s))
    /\ Len(ListOf(internal_dict, last.subsplit)) > 0

\* C6 (idempotent re-accept): right after a call accepted a key for a split, a
\* call for the same key and split with any camera accepts too and leaves the
\* ledger as it is.
C6_IdempotentReaccept ==
    (last # NoCall /\ ~last.res) =>
        \A c \in CameraTags :
            LET r == FindOrCreate(internal_dict, last.key, c, last.subsplit)
            IN  ~r.res /\ r.dict = internal_dict

\* C6 witness: the last call accepted a key that was already in the split's
\* list, and the list still holds it once.
C6_Witness ==
    /\ last # NoCall
    /\ ~last.res
    /\ In(last.key, ListOf(last.before, last.subsplit))
    /\ Cardinality({i \in 1..Len(ListOf(internal_dict, last.subsplit)) :
                       ListOf(internal_dict, last.subsplit)[i] = last.key}) = 1

-----------------------------------------------------------------------------
(* Properties of the generators *)

\* The running count and the proportion of a split.
NbOf(s) ==
    IF s = TRAIN THEN nb_of_train ELSE IF s = VALIDATION THEN nb_of_val ELSE nb_of_test

PctOf(s) ==
    IF s = TRAIN THEN percent.train_percent
    ELSE IF s = VALIDATION THEN percent.val_percent
    ELSE percent.test_percent

\* Files of the directory, and whether one has left the populated pool.
Files == 1..Len(disk)
Removed(f) == isPopulated /\ ~In(f, list_of_fits)

\* The step being taken is g accepting, or rejecting, the extension it reads.
AcceptStep(g) ==
    /\ pc[g] = "file" /\ pos[g] <= Len(disk[fit_file[g]])
    /\ pos'[g] = pos[g] + 1
    /\ \A s \in Splits \ {g} : ~In(KeyOf(CurElem(g)), ListOf(internal_dict, s))
    /\ In(KeyOf(CurElem(g)), ListOf(internal_dict', g))

RejectStep(g) ==
    /\ pc[g] = "file" /\ pos[g] <= Len(disk[fit_file[g]])
    /\ pos'[g] = pos[g] + 1
    /\ \E s \in Splits \ {g} : In(KeyOf(CurElem(g)), ListOf(internal_dict, s))

\* C2 (no leak at the output): no object identity is carried by records
\* yielded for two different splits, however the three generators' steps are
\* interleaved at their yields.
C2_NoLeak ==
    \A e1 \in emitted, e2 \in emitted :
        Identity(disk[e1[2]][e1[3]]) = Identity(disk[e2[2]][e2[3]]) => e1[1] = e2[1]

\* C2 witness: two generators have yielded records of the same file while a
\* third generator is in the middle of that file too.
C2_Witness ==
    \E e1 \in emitted, e2 \in emitted :
        /\ e1[1] # e2[1]
        /\ e1[2] = e2[2]
        /\ \E g \in Splits \ {e1[1], e2[1]} : pc[g] = "file" /\ fit_file[g] = e1[2]

\* C3 (termination, as stated): no generator starts more outer-loop iterations
\* than 7 times the number of files.
C3_IterationBound ==
    \A g \in Splits : iters[g] <= ExtPerFile * Len(disk)

C8_QuotaRespected ==
    /\ [](\A g \in Splits :
            pc[g] = "done" =>
                /\ \/ Len(list_of_fits) = 0
                   \/ NbOf(g) * PctOf(g).den >= Len(disk) * ExtPerFile * PctOf(g).num
                /\ fit_file[g] # NoFile =>
                      NbOf(g) * PctOf(g).den <
                          Len(disk) * ExtPerFile * PctOf(g).num
                              + Len(disk[fit_file[g]]) * PctOf(g).den)
    /\ [][\A g \in Splits :
            (pc[g] = "loop" /\ pc'[g] = "file") =>
                NbOf(g) * PctOf(g).den < Len(disk) * ExtPerFile * PctOf(g).num]_vars

\* C8 witness: a generator has returned with files left in the pool, its count
\* exactly at its target, after opening a file.
C8_Witness ==
    \E g \in Splits :
        /\ pc[g] = "done"
        /\ Len(list_of_fits) > 0
        /\ fit_file[g] # NoFile
        /\ NbOf(g) * PctOf(g).den = Len(disk) * ExtPerFile * PctOf(g).num

\* C9 (quota monotonicity): in every step each running count stays or grows by
\* exactly 1, and it grows only when that split's own generator has a record
\* accepted by the ledger; a step that rejects a record changes no count.
C9_QuotaMonotone ==
    [][ /\ \A s \in Splits :
             /\ NbOf(s)' >= NbOf(s)
             /\ NbOf(s)' # NbOf(s) => (NbOf(s)' = NbOf(s) + 1 /\ AcceptStep(s))
        /\ \A g \in Splits :
             RejectStep(g) => \A s \in Splits : NbOf(s)' = NbOf(s) ]_vars

\* C9 witness: two splits have counted records and a generator has just had a
\* record rejected.
C9_Witness ==
    /\ nb_of_train > 0
    /\ nb_of_val > 0
    /\ \E g \in Splits : active = g /\ pc[g] = "file" /\ pos[g] > 1

\* C10 (hit counter cap, as stated): no generator's hit counter for a file
\* exceeds 7.
C10_HitCap ==
    \A g \in Splits : \A f \in DOMAIN hit_count[g] : hit_count[g][f] <= ExtPerFile

\* The scenario of one regular file (7 extensions of one object, 3 cameras in
\* turn) with everything going to training.
SingleFileAllTrain ==
    /\ disk = << FileShapes[1] >>
    /\ percent = [train_percent |-> Frac(1, 1), val_percent |-> Frac(0, 1),
                  test_percent |-> Frac(0, 1)]

\* C11 (single-file scenario): in that scenario, with the generators drained in
\* order, TRAIN returns having yielded all 7 records and counted 7; no record is
\* ever yielded for VALIDATION or TEST, which both return normally; and from the
\* moment TRAIN has returned the ledger refuses each of the 7 records to
\* VALIDATION and to TEST.
C11_SingleFile ==
    SingleFileAllTrain =>
        /\ \A e \in emitted : e[1] = TRAIN
        /\ \A g \in Splits : pc[g] # "failed"
        /\ pc[TRAIN] = "done" =>
              /\ emitted = { <<TRAIN, 1, i>> : i \in 1..ExtPerFile }
              /\ reemitted = {}
              /\ nb_of_train = ExtPerFile
              /\ \A g \in {VALIDATION, TEST}, i \in 1..ExtPerFile :
                    FindOrCreate(internal_dict, KeyOf(disk[1][i]), disk[1][i].CAMERA, g).res
        /\ nb_of_val = 0 /\ nb_of_test = 0

\* C11 witness: the scenario has run to its end, the three generators returned
\* and 7 records yielded.
C11_Witness ==
    /\ SingleFileAllTrain
    /\ \A g \in Splits : pc[g] = "done"
    /\ Cardinality(emitted) = ExtPerFile

\* C12 (pool exhaustion is not an error): once the pool is populated no
\* generator's first step fails (the population assertions are not evaluated
\* again), and a generator that tests the loop condition on an empty pool
\* returns normally, whatever its count, changing nothing else.
C12_ExhaustionNotAnError ==
    [][\A g \in Splits :
          /\ (pc[g] = "start" /\ isPopulated /\ pc'[g] # "start") => pc'[g] = "loop"
          /\ (pc[g] = "loop" /\ Len(list_of_fits) = 0 /\ pc'[g] # "loop") =>
                /\ pc'[g] = "done"
                /\ UNCHANGED <<internal_dict, isPopulated, list_of_fits, nb_of_train,
                               nb_of_val, nb_of_test, emitted>>]_vars

\* C12 witness: a generator has returned on an empty pool with its count below
\* its target, and another one that started after the pool was emptied too.
C12_Witness ==
    \E g \in Splits, h \in Splits :
        /\ g # h
        /\ pc[g] = "done" /\ pc[h] = "done"
        /\ Len(list_of_fits) = 0
        /\ NbOf(g) * PctOf(g).den < Len(disk) * ExtPerFile * PctOf(g).num
        /\ fit_file[g] # NoFile
        /\ fit_file[h] = NoFile
        /\ NbOf(h) * PctOf(h).den < Len(disk) * ExtPerFile * PctOf(h).num

\* C13 (empty pool at population is fatal): when the walk finds no file, a
\* generator can only fail at its first step; the builder is never marked
\* populated, nothing is yielded, and the ledger, the pool and the counts stay
\* as constructed.
C13_EmptyPopulationFatal ==
    Len(disk) = 0 =>
        /\ \A g \in Splits : pc[g] \in {"start", "failed", "unbuilt"}
        /\ ~isPopulated
        /\ emitted = {}
        /\ internal_dict = EmptyLedger
        /\ list_of_fits = << >>
        /\ nb_of_train = 0 /\ nb_of_val = 0 /\ nb_of_test = 0

\* C13 witness: on an empty directory one generator has failed, and so has a
\* second one that tried after it.
C13_Witness ==
    /\ Len(disk) = 0
    /\ pc[TRAIN] = "failed"
    /\ pc[VALIDATION] = "failed"

\* C14 (construction validates proportions): from arguments whose sum, as
\* Python computes it, is not exactly 1 there is no builder and so no
\* generator, no populated pool, no ledger entry, no count and no record; from
\* arguments whose sum is exactly 1 the builder exists, and until a generator
\* is started its counts are 0 and its ledger and pool are empty.
C14_ConstructionValidates ==
    /\ percent \notin ExactlyOne =>
          /\ \A g \in Splits : pc[g] = "unbuilt"
          /\ ~isPopulated /\ list_of_fits = << >> /\ nb_of_entries = 0
          /\ internal_dict = EmptyLedger
          /\ nb_of_train = 0 /\ nb_of_val = 0 /\ nb_of_test = 0
          /\ emitted = {}
    /\ percent \in ExactlyOne =>
          /\ \A g \in Splits : pc[g] # "unbuilt"
          /\ (\A g \in Splits : pc[g] = "start") =>
                /\ nb_of_train = 0 /\ nb_of_val = 0 /\ nb_of_test = 0
                /\ internal_dict = EmptyLedger
                /\ list_of_fits = << >>

\* C14 witness: the constructor has refused (0.5, 0.3, 0.1) over a directory
\* that holds files.
C14_Witness ==
    /\ percent.val_percent = Frac(3, 10)
    /\ Len(disk) > 0
    /\ \A g \in Splits : pc[g] = "unbuilt"

\* C15 (pool only shrinks): the pool changes for the first time in the first
\* step any generator takes, which fills it with every file of the directory
\* and marks the builder populated; from then on the builder stays populated,
\* nb_of_entries is fixed, and a step either leaves the pool alone or takes out
\* of it the one file the stepping generator has just consumed with 7 hits.
C15_PoolOnlyShrinks ==
    [][/\ ~isPopulated /\ list_of_fits' # list_of_fits =>
             /\ \A g \in Splits : pc[g] = "start"
             /\ \E g \in Splits : pc'[g] = "loop"
             /\ isPopulated'
             /\ list_of_fits' = [i \in 1..Len(disk) |-> i]
       /\ isPopulated =>
             /\ isPopulated'
             /\ nb_of_entries' = nb_of_entries
             /\ \/ list_of_fits' = list_of_fits
                \/ \E k \in 1..Len(list_of_fits) :
                      /\ Len(list_of_fits') = Len(list_of_fits) - 1
                      /\ \A i \in 1..(Len(list_of_fits) - 1) :
                            list_of_fits'[i] = list_of_fits[IF i < k THEN i ELSE i + 1]
                      /\ \E g \in Splits :
                            /\ pc[g] = "file" /\ pc'[g] = "loop"
                            /\ fit_file[g] = list_of_fits[k]
                            /\ pos[g] > Len(disk[fit_file[g]])
                            /\ Get(hit_count[g], fit_file[g]) = ExtPerFile]_vars

\* C15 witness: a pool of several files has been emptied by evictions and a
\* generator started afterwards is in its loop on the empty pool.
C15_Witness ==
    /\ Len(disk) > 1
    /\ isPopulated
    /\ list_of_fits = << >>
    /\ \E g \in Splits : pc[g] = "loop" /\ fit_file[g] = NoFile

\* C16 (reject has no side effects on the ledger): after a call of FindOrCreate
\* that rejected, train_dict, valid_dict, test_dict and full_list are what they
\* were before the call.
C16_RejectLeavesLedger ==
    (last # NoCall /\ last.res) =>
        /\ internal_dict.train_dict = last.before.train_dict
        /\ internal_dict.valid_dict = last.before.valid_dict
        /\ internal_dict.test_dict = last.before.test_dict
        /\ internal_dict.full_list = last.before.full_list

\* C16 witness: a call has rejected on a ledger that holds keys in two lists.
C16_Witness ==
    /\ last # NoCall /\ last.res
    /\ Len(last.before.train_dict) > 0
    /\ Len(last.before.test_dict) > 0

\* C17 (driver handling of a rejected record): when a generator takes a step
\* on a record whose key another split's list holds, nothing is yielded, no
\* hit counter, running count, pool or ledger entry changes, and the generator
\* stands on the next record of the same open file.
C17_RejectedRecordSkipped ==
    [][\A g \in Splits :
          ( /\ pc[g] = "file" /\ pos[g] <= Len(disk[fit_file[g]])
            /\ \E s \in Splits \ {g} : In(KeyOf(CurElem(g)), ListOf(internal_dict, s))
            /\ <<pc[g], pos[g], fit_file[g]>>' # <<pc[g], pos[g], fit_file[g]>> )
          => /\ emitted' = emitted
             /\ hit_count' = hit_count
             /\ nb_of_train' = nb_of_train /\ nb_of_val' = nb_of_val
             /\ nb_of_test' = nb_of_test
             /\ list_of_fits' = list_of_fits
             /\ internal_dict' = internal_dict
             /\ pc'[g] = "file" /\ fit_file'[g] = fit_file[g]
             /\ pos'[g] = pos[g] + 1]_vars

\* C17 witness: a generator that has had records of a file accepted has just
\* had the next one rejected and stands on a further record of that file.
C17_Witness ==
    \E g \in Splits :
        /\ active = g /\ pc[g] = "file"
        /\ pos[g] > 1 /\ pos[g] <= Len(disk[fit_file[g]])
        /\ Get(hit_count[g], fit_file[g]) > 0
        /\ \E s \in Splits \ {g} :
              In(KeyOf(disk[fit_file[g]][pos[g] - 1]), ListOf(internal_dict, s))

\* C18 (eviction never faults, as stated): a generator that has consumed a
\* file with its hit counter at 7 finds the file in the pool, and no generator
\* dies in list.remove.
C18_EvictionNeverFaults ==
    /\ \A g \in Splits :
          (pc[g] = "file" /\ pos[g] > Len(disk[fit_file[g]])
              /\ Evicts(Get(hit_count[g], fit_file[g])))
          => In(fit_file[g], list_of_fits)
    /\ \A g \in Splits : pc[g] = "failed" => ~isPopulated

\* C19 (no duplicate emission, as stated): no extension of a file is yielded a
\* second time.
C19_NoDuplicateEmission ==
    reemitted = {}

====
